---- MODULE Spec2Model ----
(***************************************************************************)
(* MeshDrainage.py: the drainage-path simulation of MeshAnalysis.          *)
(*                                                                         *)
(* The mesh is a height profile over the vertex positions 1..NumVerts (a   *)
(* section through the surface along the direction of flow); one step of   *)
(* length StepSize moves a particle StepSize vertex spacings along the     *)
(* profile.  A point is the record [X, Z].  ClosestMeshPoint finds a mesh  *)
(* point for the positions of the profile and none for a position off it.  *)
(*                                                                         *)
(* drainPath runs on the main thread when Threaded is false and on the     *)
(* worker threads of Parallel.ForEach when it is true; the workers share   *)
(* the enumerator of startPoints and the list drainPaths, whose append is  *)
(* atomic (IronPython locks a list for each of its operations).            *)
(***************************************************************************)
EXTENDS Integers, Sequences, FiniteSets

\* Bounds of the model.
NumVerts == 3
MaxStepsBound == 3
NumWorkers == 2

\* Mesh is None: no vertices.  meshPt is None: a record that is no point.
NoMesh == <<>>
NoPoint == [None |-> TRUE]

Verts == 1..NumVerts
Workers == 1..NumWorkers
\* The height profiles: the lowest vertex at height 0 (only differences of
\* height are ever compared), neighbouring vertices at most one unit apart.
Meshes ==
  { m \in [Verts -> 0..(NumVerts - 1)] :
      /\ \E x \in Verts : m[x] = 0
      /\ \A x \in 1..(NumVerts - 1) : m[x + 1] - m[x] \in {-1, 0, 1} }
StepSizes == {0, 1}

VARIABLES
  Mesh,            \* input: the height profile, or NoMesh
  ParticleCountIn, \* input ParticleCount as the host supplied it
  ParticleCount,   \* the global ParticleCount, reassigned by the clamp
  MaxSteps,        \* input
  StepSize,        \* input
  Threaded,        \* input
  FlatDir,         \* where the plane's X axis points after Rotate by the
                   \* unset angle VectorAngle returns on a horizontal plane
  status,          \* "entry", "tracing", "returned", "error"
  startPoints,     \* vts after random.sample
  nextItem,        \* the enumerator over startPoints: next index to hand out
  drainPaths,      \* the shared return list
  DrainagePaths,   \* the component's output
  loc,             \* per thread: "idle", "loop", "broke"
  i,               \* per thread: the loop variable of drainPath
  paPl,            \* per thread: X of the particle plane's origin
  particles,       \* per thread: the particle list
  queries,         \* per thread: ClosestMeshPoint calls of the running trace
  failedAt         \* per thread: the call that first returned None (0: none)

inputs == <<Mesh, ParticleCountIn, MaxSteps, StepSize, Threaded, FlatDir>>
tvars == <<loc, i, paPl, particles, queries, failedAt>>
vars == <<inputs, ParticleCount, status, startPoints, nextItem, drainPaths,
          DrainagePaths, tvars>>

Sgn(n) == IF n > 0 THEN 1 ELSE IF n < 0 THEN -1 ELSE 0

Last(s) == s[Len(s)]

\* Mesh.Vertices.ToPoint3dArray()
ToPoint3dArray(mesh) == [x \in Verts |-> [X |-> x, Z |-> mesh[x]]]

\* mesh.ClosestMeshPoint(paPl.Origin, 0.00)
ClosestMeshPoint(mesh, x) ==
  IF x \in Verts THEN [X |-> x, Z |-> mesh[x]] ELSE NoPoint

\* mesh.NormalAt(meshPt): the sign of the normal's horizontal component,
\* the vertex normal being the mean of the normals of the adjacent faces.
NormalAt(mesh, x) ==
  LET l == IF x > 1 THEN mesh[x - 1] ELSE mesh[x]
      r == IF x < NumVerts THEN mesh[x + 1] ELSE mesh[x]
  IN  Sgn(l - r)

\* VectorAngle(paPl.XAxis, -ZAxis, paPl) and paPl.Rotate(an, paPl.ZAxis):
\* the X axis turned onto the projection of -Z; on a horizontal plane the
\* projection is the zero vector and the angle is the unset value.
DownSlopeAxis(mesh, x, flat) ==
  IF NormalAt(mesh, x) = 0 THEN flat ELSE NormalAt(mesh, x)

\* paPl.Translate(paPl.XAxis * stepSize)
Translate(mesh, x, flat, stepSize) == x + DownSlopeAxis(mesh, x, flat) * stepSize

\* Off by one: one pass more than maxSteps.
LoopCond_OneMore(k, maxSteps) == k <= maxSteps

\* for i in range(maxSteps)
LoopCond(k, maxSteps) == k < maxSteps

\* The check starts one pass late.
IsUpSlope_Late(k, z, trail) == k > 1 /\ z > Last(trail).Z

\* if i and paPl.Origin.Z > particles[-1].Z: break
IsUpSlope(k, z, trail) == k > 0 /\ z > Last(trail).Z

\* A particle list of one point kept.
KeepPath_One(trail) == Len(trail) > 0

\* if len(particles) > 1
KeepPath(trail) == Len(trail) > 1

\* A write that loses what the other threads appended.
AppendPath_Lost(list, pl) == <<pl>>

\* drainPaths.append(pl)
AppendPath(list, pl) == Append(list, pl)

\* The clamp left out.
ClampCount_None(pc, n) == pc

\* if ParticleCount > len(vts): ParticleCount = len(vts)
ClampCount(pc, n) == IF pc > n THEN n ELSE pc

\* random.sample(vts, k): k elements at distinct indices, in any order
\* (the order the seed gives).
Samples(vts, k) ==
  { [j \in 1..k |-> vts[f[j]]] :
      f \in { g \in [1..k -> DOMAIN vts] :
                \A a, b \in 1..k : a # b => g[a] # g[b] } }

\* One pass through the body of the loop of drainPath.
LoopBody(mesh, x, k, trail, flat, stepSize) ==
  LET meshPt == ClosestMeshPoint(mesh, x) IN
  IF meshPt = NoPoint
    THEN [x |-> x, trail |-> trail, broke |-> FALSE, found |-> FALSE]
  ELSE IF IsUpSlope(k, meshPt.Z, trail)
    THEN [x |-> x, trail |-> trail, broke |-> TRUE, found |-> TRUE]
  ELSE [x |-> Translate(mesh, x, flat, stepSize),
        trail |-> Append(trail, meshPt), broke |-> FALSE, found |-> TRUE]

\* drainPath(pt) as a function: the particle list when the loop is left.
RECURSIVE TraceFrom(_, _, _, _, _, _, _)
TraceFrom(mesh, x, k, trail, flat, stepSize, maxSteps) ==
  IF ~LoopCond(k, maxSteps) THEN trail
  ELSE LET r == LoopBody(mesh, x, k, trail, flat, stepSize) IN
       IF r.broke THEN r.trail
       ELSE TraceFrom(mesh, r.x, k + 1, r.trail, flat, stepSize, maxSteps)

drainPathTrail(pt) ==
  TraceFrom(Mesh, pt.X, 0, <<>>, FlatDir, StepSize, MaxSteps)

\* [drainPath(pt) for pt in startPoints]: the paths in the order of startPoints.
RECURSIVE SequentialPaths(_)
SequentialPaths(pts) ==
  IF pts = <<>> THEN <<>>
  ELSE LET t == drainPathTrail(Head(pts))
           rest == SequentialPaths(Tail(pts))
       IN  IF KeepPath(t) THEN <<t>> \o rest ELSE rest

\* A thread is inside the loop of drainPath.  The loop reads the mesh and
\* writes only the thread's own locals, so its iterations commute with every
\* step of another thread: a loop is run to its end before the next access
\* to the enumerator or to the list drainPaths.
InLoop(w) == loc[w] = "loop" /\ LoopCond(i[w], MaxSteps)

Idle == [w \in Workers |-> "idle"]
Zeros == [w \in Workers |-> 0]
Empties == [w \in Workers |-> <<>>]

Init ==
  /\ Mesh \in Meshes \cup {NoMesh}
  /\ ParticleCountIn \in -1..(NumVerts + 1)
  /\ ParticleCount = ParticleCountIn
  /\ MaxSteps \in 0..MaxStepsBound
  /\ StepSize \in StepSizes
  /\ Threaded \in BOOLEAN
  /\ FlatDir \in {-1, 1}
  /\ status = "entry"
  /\ startPoints = <<>>
  /\ nextItem = 1
  /\ drainPaths = <<>>
  /\ DrainagePaths = <<>>
  /\ loc = Idle
  /\ i = Zeros
  /\ paPl = Zeros
  /\ particles = Empties
  /\ queries = Zeros
  /\ failedAt = Zeros

\* if Mesh: ... else: DrainagePaths = []
NoMeshGiven ==
  /\ status = "entry"
  /\ Mesh = NoMesh
  /\ status' = "returned"
  /\ DrainagePaths' = <<>>
  /\ UNCHANGED <<inputs, ParticleCount, startPoints, nextItem, drainPaths, tvars>>

\* random.sample(population, k) raises ValueError unless 0 <= k <= n.
SampleFits(k, n) == 0 <= k /\ k <= n

\* The clamp, and random.sample raising: the script ends with the exception.
SampleError ==
  /\ status = "entry"
  /\ Mesh # NoMesh
  /\ ~SampleFits(ClampCount(ParticleCount, NumVerts), NumVerts)
  /\ ParticleCount' = ClampCount(ParticleCount, NumVerts)
  /\ status' = "error"
  /\ UNCHANGED <<inputs, startPoints, nextItem, drainPaths, DrainagePaths, tvars>>

\* The clamp, the sample and the call of makeDrainMeshPaths (drainPaths = []).
SampleVertices ==
  /\ status = "entry"
  /\ Mesh # NoMesh
  /\ SampleFits(ClampCount(ParticleCount, NumVerts), NumVerts)
  /\ ParticleCount' = ClampCount(ParticleCount, NumVerts)
  /\ startPoints' \in Samples(ToPoint3dArray(Mesh), ParticleCount')
  /\ status' = "tracing"
  /\ nextItem' = 1
  /\ drainPaths' = <<>>
  /\ UNCHANGED <<inputs, DrainagePaths, tvars>>

\* A thread takes the next start point and enters drainPath: the main thread
\* (1) alone when not Threaded, a worker of Parallel.ForEach otherwise (the
\* workers are interchangeable: the free one of lowest number takes it).
TakeItem(w) ==
  /\ status = "tracing"
  /\ Threaded \/ w = 1
  /\ loc[w] = "idle"
  /\ \A v \in 1..(w - 1) : loc[v] # "idle"
  /\ \A v \in Workers : ~InLoop(v)
  /\ nextItem <= Len(startPoints)
  /\ nextItem' = nextItem + 1
  /\ loc' = [loc EXCEPT ![w] = "loop"]
  /\ i' = [i EXCEPT ![w] = 0]
  /\ paPl' = [paPl EXCEPT ![w] = startPoints[nextItem].X]
  /\ particles' = [particles EXCEPT ![w] = <<>>]
  /\ queries' = [queries EXCEPT ![w] = 0]
  /\ failedAt' = [failedAt EXCEPT ![w] = 0]
  /\ UNCHANGED <<inputs, ParticleCount, status, startPoints, drainPaths, DrainagePaths>>

\* One iteration of the loop of drainPath.
LoopIter(w) ==
  /\ InLoop(w)
  /\ LET r == LoopBody(Mesh, paPl[w], i[w], particles[w], FlatDir, StepSize) IN
       /\ queries' = [queries EXCEPT ![w] = @ + 1]
       /\ failedAt' = [failedAt EXCEPT
                         ![w] = IF ~r.found /\ @ = 0 THEN queries[w] + 1 ELSE @]
       /\ loc' = [loc EXCEPT ![w] = IF r.broke THEN "broke" ELSE "loop"]
       /\ i' = [i EXCEPT ![w] = IF r.broke THEN @ ELSE @ + 1]
       /\ paPl' = [paPl EXCEPT ![w] = r.x]
       /\ particles' = [particles EXCEPT ![w] = r.trail]
  /\ UNCHANGED <<inputs, ParticleCount, status, startPoints, nextItem, drainPaths,
                 DrainagePaths>>

\* The loop is left (break, or the range is exhausted): make the polyline.
MakeDrainPolyline(w) ==
  /\ loc[w] # "idle"
  /\ \A v \in Workers : ~InLoop(v)
  /\ drainPaths' = IF KeepPath(particles[w])
                     THEN AppendPath(drainPaths, particles[w])
                     ELSE drainPaths
  /\ loc' = [loc EXCEPT ![w] = "idle"]
  /\ i' = [i EXCEPT ![w] = 0]
  /\ paPl' = [paPl EXCEPT ![w] = 0]
  /\ particles' = [particles EXCEPT ![w] = <<>>]
  /\ queries' = [queries EXCEPT ![w] = 0]
  /\ failedAt' = [failedAt EXCEPT ![w] = 0]
  /\ UNCHANGED <<inputs, ParticleCount, status, startPoints, nextItem, DrainagePaths>>

\* return drainPaths, and the output to the host.
Return ==
  /\ status = "tracing"
  /\ nextItem > Len(startPoints)
  /\ \A w \in Workers : loc[w] = "idle"
  /\ status' = "returned"
  /\ DrainagePaths' = drainPaths
  /\ UNCHANGED <<inputs, ParticleCount, startPoints, nextItem, drainPaths, tvars>>

Next ==
  \/ NoMeshGiven
  \/ SampleError
  \/ SampleVertices
  \/ \E w \in Workers : TakeItem(w)
  \/ \E w \in Workers : LoopIter(w)
  \/ \E w \in Workers : MakeDrainPolyline(w)
  \/ Return

Spec == Init /\ [][Next]_vars

\* Every thread that can run does run.
FairSpec == Spec /\ WF_vars(Next)

(***************************************************************************)
(* The properties.                                                         *)
(***************************************************************************)

Min(a, b) == IF a < b THEN a ELSE b

Count(seq, p) == Cardinality({k \in DOMAIN seq : seq[k] = p})

Distinct(seq) == \A a, b \in DOMAIN seq : a # b => seq[a] # seq[b]

Descends(trail) == \A j \in 2..Len(trail) : trail[j].Z <= trail[j - 1].Z

StrictlyDescends(trail) == \A j \in 2..Len(trail) : trail[j].Z < trail[j - 1].Z

IsFlat(mesh) == mesh # NoMesh /\ \A x \in Verts : mesh[x] = mesh[1]

\* A mesh is given and the configuration is one the specification accepts.
ValidConfig ==
  Mesh # NoMesh /\ ParticleCountIn > 0 /\ MaxSteps > 0 /\ StepSize > 0

\* C1: in both execution modes the returned list is the emitted paths in the
\* order of the sampling index of their start points, i.e. the list the
\* sequential run returns (stated for the valid configurations).
C1_OutputInSamplingOrder ==
  status = "returned" /\ ValidConfig =>
    DrainagePaths = SequentialPaths(startPoints)

\* C2: every path of the return list and of the output has at least 2
\* points; a particle list of 0 or 1 points is never appended.
C2_PathsHaveTwoPoints ==
  /\ \A k \in DOMAIN drainPaths : Len(drainPaths[k]) >= 2
  /\ \A k \in DOMAIN DrainagePaths : Len(DrainagePaths[k]) >= 2

\* C2 witness: the driver has returned paths, and the trace of one of the
\* start points ended with fewer than 2 points and is not among them.
C2_Witness ==
  /\ status = "returned"
  /\ DrainagePaths # <<>>
  /\ \E k \in DOMAIN startPoints :
       /\ Len(drainPathTrail(startPoints[k])) <= 1
       /\ \A j \in DOMAIN DrainagePaths :
            DrainagePaths[j][1] # startPoints[k]

\* C3: in every path, and in every particle list while it is built, no
\* point lies higher than the point before it.
C3_MonotonicDescent ==
  /\ \A k \in DOMAIN drainPaths : Descends(drainPaths[k])
  /\ \A k \in DOMAIN DrainagePaths : Descends(DrainagePaths[k])
  /\ \A w \in Workers : Descends(particles[w])

\* C3 witness: a trace that went down a step and then left the loop because
\* the next point lay higher.
C3_Witness ==
  \E w \in Workers :
    /\ loc[w] = "broke"
    /\ Len(particles[w]) >= 2
    /\ particles[w][2].Z < particles[w][1].Z

\* C4: with N candidate points the output has at most min(ParticleCount, N)
\* paths; a ParticleCount above N is clamped to N without an error, N
\* distinct start points are traced and each gives at most one path.
C4_CountClamped ==
  Mesh # NoMesh =>
    /\ status = "returned" =>
         Len(DrainagePaths) <= Min(ParticleCountIn, NumVerts)
    /\ Len(drainPaths) <= nextItem - 1
    /\ ParticleCountIn > NumVerts =>
         /\ status # "error"
         /\ status \in {"tracing", "returned"} =>
              /\ Len(startPoints) = NumVerts
              /\ Distinct(startPoints)
         /\ status = "returned" => nextItem = NumVerts + 1

\* C4 witness: ParticleCount was above N and the driver returned paths.
C4_Witness ==
  /\ status = "returned"
  /\ ParticleCountIn > NumVerts
  /\ DrainagePaths # <<>>

\* C5: a configuration with ParticleCount <= 0, MaxSteps <= 0 or
\* StepSize <= 0 is rejected before any start point is sampled: it never
\* reaches tracing and never returns a normal result.
C5_InvalidConfigRejected ==
  (Mesh # NoMesh /\ (ParticleCountIn <= 0 \/ MaxSteps <= 0 \/ StepSize <= 0)) =>
    status \in {"entry", "error"}

\* C6: on a flat horizontal surface every trace stops at its first step with
\* at most one point recorded, and no path is emitted (stated for the valid
\* configurations).
C6_FlatSurfaceNoPath ==
  IsFlat(Mesh) /\ ValidConfig =>
    /\ \A w \in Workers : Len(particles[w]) <= 1
    /\ drainPaths = <<>>
    /\ DrainagePaths = <<>>

\* C7: a candidate at the same elevation as, or higher than, the last
\* recorded point is never recorded: the elevations of a particle list are
\* strictly decreasing (stated for the valid configurations).
C7_LevelStepNotRecorded ==
  ValidConfig => \A w \in Workers : StrictlyDescends(particles[w])

\* C8: once the mesh gives no closest point for the particle's position, the
\* trace makes no further pass through the loop and no further query (stated
\* for the valid configurations).
C8_StopsAtNoProjection ==
  ValidConfig =>
    \A w \in Workers : failedAt[w] # 0 => queries[w] = failedAt[w]

\* C9: a trace makes at most MaxSteps passes through its loop and at most
\* MaxSteps queries, no particle list and no path has more than MaxSteps
\* points, and the driver, once called, returns.
C9_TracesTerminate ==
  /\ [](/\ \A w \in Workers :
             /\ i[w] <= MaxSteps
             /\ queries[w] <= MaxSteps
             /\ Len(particles[w]) <= MaxSteps
        /\ \A k \in DOMAIN drainPaths : Len(drainPaths[k]) <= MaxSteps
        /\ \A k \in DOMAIN DrainagePaths : Len(DrainagePaths[k]) <= MaxSteps)
  /\ (status = "tracing" ~> status = "returned")

\* C9 witness: a trace that used its whole budget of passes, every one of
\* them recording a point, and whose path the driver returned.
C9_Witness ==
  /\ status = "returned"
  /\ MaxSteps = MaxStepsBound
  /\ \E k \in DOMAIN DrainagePaths : Len(DrainagePaths[k]) = MaxSteps

\* C10: with Threaded true the returned list holds, for every start point
\* whose particle list has more than 1 point, that list exactly once and
\* nothing else: the same paths as the sequential run, in some order.  (With
\* Threaded false the returned list is the list of the sequential run.)
C10_SamePathsAnyOrder ==
  status = "returned" /\ Mesh # NoMesh =>
    LET seqPaths == SequentialPaths(startPoints) IN
    /\ Len(DrainagePaths) = Len(seqPaths)
    /\ \A k \in DOMAIN seqPaths :
         Count(DrainagePaths, seqPaths[k]) = Count(seqPaths, seqPaths[k])
    /\ ~Threaded => DrainagePaths = seqPaths

\* C10 witness: a threaded run that returned two or more paths in an order
\* other than that of the start points.
C10_Witness ==
  /\ status = "returned"
  /\ Threaded
  /\ Len(DrainagePaths) >= 2
  /\ DrainagePaths # SequentialPaths(startPoints)

====
